---- MODULE Spec2Model ----
(***************************************************************************)
(* State-machine model of the ourTabi backend: the relational store        *)
(* (users, friend, trip, trip_member), the model classes that query it     *)
(* (User, Friend, Trip, TripMember) and the HTTP routes that call them.    *)
(* Every request is one atomic step: the handler's queries run one after   *)
(* another with no other request in between.                               *)
(*                                                                         *)
(* A username is identified with the id of its user row.  A bearer token   *)
(* carries that id and stays valid after the user row is deleted: the      *)
(* token is verified by its signature alone (middleware/auth.js).          *)
(***************************************************************************)
EXTENDS Integers, FiniteSets, Sequences, TLC

\* Bounds of the model.  NumUsers accounts are registered at the start; the
\* others cap how many rows a SERIAL sequence hands out.
NumUsers == 3
MaxFriendId == 2
MaxTripId == 1
MaxMemberId == 2
MaxPlanIds == 1
MaxInflight == 2

VARIABLES
  users,         \* table users: the set of ids that have a row
  friend,        \* table friend: rows [id, sender_id, recipient_id, status]
  nextFriendId,  \* friend.id SERIAL
  trip,          \* table trip: rows [id, creator_id, is_private]
  nextTripId,    \* trip.id SERIAL
  trip_member,   \* table trip_member: rows [id, user_id, trip_id, role]
  nextMemberId,  \* trip_member.id SERIAL
  activity,      \* table activity: rows [id, trip_id, created_by, name]
  nextActivityId,\* activity.id SERIAL
  comment,       \* table comment: rows [id, user_id, trip_id]
  nextCommentId, \* comment.id SERIAL
  vote,          \* table vote: rows [user_id, activity_id, vote_value]
  last,          \* the last call: the arguments and returned id of a call
                 \* that succeeded, the error class and message of one that
                 \* threw
  inflight,      \* the model calls between two of their statements: per
                 \* slot, the call and what its first query found
  is_admin,      \* users.is_admin: the ids of the rows where it is true
  nextUserId,    \* users.id SERIAL
  tokens         \* the token payloads [id, isAdmin] signed so far

vars == <<users, friend, nextFriendId, trip, nextTripId, trip_member,
          nextMemberId, activity, nextActivityId, comment, nextCommentId,
          vote, last, inflight, is_admin, nextUserId, tokens>>

friendVars == <<friend, nextFriendId>>
tripVars == <<trip, nextTripId, trip_member, nextMemberId>>
planVars == <<activity, nextActivityId, comment, nextCommentId, vote>>
authVars == <<is_admin, nextUserId, tokens>>

\* Ids a request can name; an id names no row once its row is deleted.
UserIds == 1..NumUsers
TripIds == 1..MaxTripId
MemberIds == 1..MaxMemberId

\* Identities a request can carry: 0 is a request without a valid token,
\* u > 0 the token issued to user u.
Callers == 0..NumUsers

\* The calls that can be under way at once, and a slot with none.
Slots == 1..MaxInflight
Idle == [op |-> "idle", a |-> 0, b |-> 0, c |-> 0]

Ok == [res |-> "ok", msg |-> ""]
Err(kind, msg) == [res |-> kind, msg |-> msg]

Done(op, a, b, c, ret) ==
  [op |-> op, a |-> a, b |-> b, c |-> c, res |-> "ok", msg |-> "", ret |-> ret]
Failed(op, e) ==
  [op |-> op, a |-> 0, b |-> 0, c |-> 0, res |-> e.res, msg |-> e.msg, ret |-> 0]

\* The generic error handler: an error that carries no status is answered 500.
HttpStatus(res) ==
  CASE res = "ok" -> 200
    [] res = "BadRequest" -> 400
    [] res = "Unauthorized" -> 401
    [] res = "Forbidden" -> 403
    [] res = "NotFound" -> 404
    [] OTHER -> 500

FriendRow(id, s, r, st) ==
  [id |-> id, sender_id |-> s, recipient_id |-> r, status |-> st]
MemberRow(id, u, t, role) ==
  [id |-> id, user_id |-> u, trip_id |-> t, role |-> role]
TripRow(id, creator, priv) ==
  [id |-> id, creator_id |-> creator, is_private |-> priv]
ActivityRow(id, t, u, name) ==
  [id |-> id, trip_id |-> t, created_by |-> u, name |-> name]
CommentRow(id, u, t) ==
  [id |-> id, user_id |-> u, trip_id |-> t]
VoteRow(u, a, v) ==
  [user_id |-> u, activity_id |-> a, vote_value |-> v]

\* The registered accounts, no other row.
Init ==
  /\ users = 1..NumUsers
  /\ friend = {}
  /\ nextFriendId = 1
  /\ trip = {}
  /\ nextTripId = 1
  /\ trip_member = {}
  /\ nextMemberId = 1
  /\ activity = {}
  /\ nextActivityId = 1
  /\ comment = {}
  /\ nextCommentId = 1
  /\ vote = {}
  /\ last = Done("init", 0, 0, 0, 0)
  /\ inflight = [i \in Slots |-> Idle]
  /\ is_admin = {}
  /\ nextUserId = NumUsers + 1
  /\ tokens = {}

----------------------------------------------------------------------------
(* Friend *)

\* sendFriendRequest's duplicateCheck query, forward direction only.
DuplicateCheckForwardOnly(s, r) ==
  {f \in friend : f.sender_id = s /\ f.recipient_id = r}

\* sendFriendRequest's duplicateCheck query.
DuplicateCheck(s, r) ==
  {f \in friend : \/ (f.sender_id = s /\ f.recipient_id = r)
                  \/ (f.sender_id = r /\ f.recipient_id = s)}

\* The self-request guard, left out.
SelfRequestNever(s, r) == FALSE

\* sendFriendRequest's first guard.
SelfRequest(s, r) == s = r

\* What the INSERT INTO friend meets in the schema: both foreign keys and
\* UNIQUE (sender_id, recipient_id).  A violation is a raw driver error.
FriendInsertConstraints(s, r) ==
  IF s \notin users \/ r \notin users
  THEN Err("DbError", "violates foreign key constraint")
  ELSE IF \E f \in friend : f.sender_id = s /\ f.recipient_id = r
  THEN Err("DbError", "violates unique constraint")
  ELSE Ok

\* Friend.sendFriendRequest(senderId, recipientId): its outcome.
SendFriendRequestResult(s, r) ==
  IF SelfRequest(s, r)
  THEN Err("BadRequest", "Friend request cannot be sent to yourself.")
  ELSE IF DuplicateCheck(s, r) # {}
  THEN Err("BadRequest", "Friend request already sent or you are already friends.")
  ELSE FriendInsertConstraints(s, r)

\* Friend.sendFriendRequest(senderId, recipientId), called as `op`.
DoSendFriendRequest(op, s, r) ==
  LET e == SendFriendRequestResult(s, r) IN
  /\ friend' = IF e = Ok
               THEN friend \cup {FriendRow(nextFriendId, s, r, "pending")}
               ELSE friend
  /\ nextFriendId' = IF e = Ok THEN nextFriendId + 1 ELSE nextFriendId
  /\ last' = IF e = Ok THEN Done(op, s, r, 0, nextFriendId) ELSE Failed(op, e)
  /\ UNCHANGED <<authVars, inflight, users, tripVars, planVars>>

\* acceptFriendRequest's checkRequest query.
CheckRequest(s, r) ==
  {f \in friend : /\ \/ (f.sender_id = s /\ f.recipient_id = r)
                     \/ (f.sender_id = r /\ f.recipient_id = s)
                  /\ f.status = "pending"}

\* The recipient guard, left out.
NotTheRecipientNever(r, request) == FALSE

\* "Ensure only the recipient can accept".
NotTheRecipient(r, request) == r # request.recipient_id

\* The UPDATE of acceptFriendRequest.
AcceptUpdate(request) ==
  {IF f.sender_id = request.sender_id /\ f.recipient_id = request.recipient_id
   THEN [f EXCEPT !.status = "accepted"] ELSE f : f \in friend}

\* Friend.acceptFriendRequest(senderId, recipientId), called as `op`.
\* rows[0] of the query is any of its rows.
DoAcceptFriendRequest(op, s, r) ==
  /\ IF CheckRequest(s, r) = {}
     THEN /\ friend' = friend
          /\ last' = Failed(op, Err("NotFound", "No pending friend request between users"))
     ELSE \E request \in CheckRequest(s, r) :
            IF NotTheRecipient(r, request)
            THEN /\ friend' = friend
                 /\ last' = Failed(op, Err("BadRequest",
                                "Only the recipient can accept the friend request."))
            ELSE /\ friend' = AcceptUpdate(request)
                 /\ last' = Done(op, s, r, 0, request.id)
  /\ UNCHANGED <<authVars, inflight, nextFriendId, users, tripVars, planVars>>

\* The rows Friend.remove deletes, forward direction only.
RemoveMatchForwardOnly(s, r) ==
  {f \in friend : f.sender_id = s /\ f.recipient_id = r}

\* The rows Friend.remove deletes.
RemoveMatch(s, r) ==
  {f \in friend : \/ (f.sender_id = s /\ f.recipient_id = r)
                  \/ (f.sender_id = r /\ f.recipient_id = s)}

\* Friend.remove(senderId, recipientId), called as `op`.
DoFriendRemove(op, s, r) ==
  LET deleted == RemoveMatch(s, r) IN
  /\ friend' = friend \ deleted
  /\ last' = IF deleted = {}
             THEN Failed(op, Err("NotFound", "No relationship found between users"))
             ELSE Done(op, s, r, 0, 0)
  /\ UNCHANGED <<authVars, inflight, nextFriendId, users, tripVars, planVars>>

\* Friend.areFriends without its status filter.
areFriendsAnyStatus(u1, u2) ==
  \E f \in friend : \/ (f.sender_id = u1 /\ f.recipient_id = u2)
                    \/ (f.sender_id = u2 /\ f.recipient_id = u1)

\* Friend.areFriends(userId1, userId2).
areFriends(u1, u2) ==
  \E f \in friend : /\ \/ (f.sender_id = u1 /\ f.recipient_id = u2)
                       \/ (f.sender_id = u2 /\ f.recipient_id = u1)
                    /\ f.status = "accepted"

\* Friend.getFriendsByStatus(userId, "sent"): friend rows joined to the
\* recipient's user row.
SentRequests(userId) ==
  {<<f, u>> \in friend \X users :
     u = f.recipient_id /\ f.sender_id = userId /\ f.status = "pending"}

\* Friend.getFriendsByStatus(userId, "pending") without its status filter.
IncomingRequestsAnyStatus(userId) ==
  {<<f, u>> \in friend \X users : u = f.sender_id /\ f.recipient_id = userId}

\* Friend.getFriendsByStatus(userId, "pending"): friend rows joined to the
\* sender's user row.
IncomingRequests(userId) ==
  {<<f, u>> \in friend \X users :
     u = f.sender_id /\ f.recipient_id = userId /\ f.status = "pending"}

\* Friend.getFriendsByStatus(userId, "accepted"): friend rows joined to the
\* user row of the other side.
AcceptedFriends(userId) ==
  {<<f, u>> \in friend \X users :
     /\ (f.sender_id = u \/ f.recipient_id = u)
     /\ (f.sender_id = userId \/ f.recipient_id = userId)
     /\ u # userId
     /\ f.status = "accepted"}

SendFriendRequest(s, r) == DoSendFriendRequest("sendFriendRequest", s, r)
AcceptFriendRequest(s, r) == DoAcceptFriendRequest("acceptFriendRequest", s, r)
FriendRemove(s, r) == DoFriendRemove("Friend.remove", s, r)

----------------------------------------------------------------------------
(* User *)

\* ensureLoggedIn: a request without a valid token is refused.
NotLoggedIn(caller) == caller = 0

\* users.id referenced ON DELETE CASCADE by friend.sender_id / recipient_id.
CascadeUserFriend(u) ==
  {f \in friend : f.sender_id # u /\ f.recipient_id # u}

\* users.id referenced ON DELETE CASCADE by trip.creator_id.
CascadeUserTrip(u) == {t \in trip : t.creator_id # u}

\* users.id and trip.id referenced ON DELETE CASCADE by activity.
CascadeUserActivity(u, trips) ==
  {a \in activity : a.created_by # u /\ a.trip_id \in {t.id : t \in trips}}

\* users.id and trip.id referenced ON DELETE CASCADE by comment.
CascadeUserComment(u, trips) ==
  {c \in comment : c.user_id # u /\ c.trip_id \in {t.id : t \in trips}}

\* The cascade from users and activity to vote, got wrong: votes stay.
CascadeUserVoteNone(u, activities) == vote

\* users.id and activity.id referenced ON DELETE CASCADE by vote.
CascadeUserVote(u, activities) ==
  {v \in vote : v.user_id # u /\ v.activity_id \in {a.id : a \in activities}}

\* users.id and trip.id referenced ON DELETE CASCADE by trip_member.
CascadeMember(u, trips) ==
  {m \in trip_member : m.user_id # u /\ m.trip_id \in {t.id : t \in trips}}

\* User.remove(username), called as `op` on behalf of `caller`: DELETE FROM
\* users, with every ON DELETE CASCADE reference of the schema following.
DoUserRemove(op, caller, name) ==
  IF name \notin users
  THEN /\ last' = Failed(op, Err("NotFound", "No user"))
       /\ UNCHANGED <<authVars, inflight, users, friendVars, tripVars, planVars>>
  ELSE /\ users' = users \ {name}
       /\ friend' = CascadeUserFriend(name)
       /\ trip' = CascadeUserTrip(name)
       /\ trip_member' = CascadeMember(name, CascadeUserTrip(name))
       /\ last' = Done(op, caller, name, 0, 0)
       /\ activity' = CascadeUserActivity(name, CascadeUserTrip(name))
       /\ comment' = CascadeUserComment(name, CascadeUserTrip(name))
       /\ vote' = CascadeUserVote(name,
                     CascadeUserActivity(name, CascadeUserTrip(name)))
       /\ is_admin' = is_admin \ {name}
       /\ UNCHANGED <<nextUserId, tokens, inflight, nextFriendId, nextTripId,
                      nextMemberId, nextActivityId, nextCommentId>>

\* DELETE /users/:username -> User.remove(username).  ensureCorrectUserOrAdmin:
\* the caller must be that user; the registered accounts are not admins.
DeleteUser(caller, name) ==
  IF NotLoggedIn(caller) \/ caller # name
  THEN /\ last' = Failed("DELETE /users/:username",
                    Err("Unauthorized", "You do not have permission to access this page."))
       /\ UNCHANGED <<authVars, inflight, users, friendVars, tripVars, planVars>>
  ELSE DoUserRemove("DELETE /users/:username", caller, name)

\* User.remove called directly.
UserRemove(name) == DoUserRemove("User.remove", 0, name)

\* What authenticateJWT leaves in res.locals.user when the request carries no
\* token, or one that does not verify.
NoToken == [id |-> 0, isAdmin |-> FALSE]

\* createToken(user): the payload signed for a users row.
createToken(id, isAdmin) == [id |-> id, isAdmin |-> isAdmin]

\* The isAdmin column written by POST /users: User.register({ ...req.body }),
\* whose parameter defaults to false for a body without the key.
BodyIsAdmin(bodyAdmin) == bodyAdmin = "true"

\* User.register(...) called as `op` by the holder of `tok`: the duplicate
\* check on username and email, then the INSERT with the given is_admin, and
\* the route's createToken(newUser).
DoRegister(op, tok, taken, isAdmin) ==
  IF taken
  THEN /\ last' = Failed(op, Err("BadRequest", "Username or email already exists."))
       /\ UNCHANGED <<authVars, inflight, users, friendVars, tripVars, planVars>>
  ELSE /\ users' = users \cup {nextUserId}
       /\ is_admin' = IF isAdmin THEN is_admin \cup {nextUserId} ELSE is_admin
       /\ nextUserId' = nextUserId + 1
       /\ tokens' = tokens \cup {createToken(nextUserId, isAdmin)}
       /\ last' = Done(op, tok.id, 0, 0, nextUserId)
       /\ UNCHANGED <<inflight, friendVars, tripVars, planVars>>

\* POST /auth/register: validateSchema(userRegisterSchema), which lets a body
\* carry isAdmin, then User.register({ ...req.body, isAdmin: false }).
\* `valid` is the schema's verdict on the body, `taken` whether its username
\* or email is that of a row.
PostRegister(valid, taken, bodyAdmin) ==
  IF ~ valid
  THEN /\ last' = Failed("POST /auth/register", Err("BadRequest", "validation"))
       /\ UNCHANGED <<authVars, inflight, users, friendVars, tripVars, planVars>>
  ELSE DoRegister("POST /auth/register", NoToken, taken, FALSE)

\* ensureAdmin: the token's payload decides.
NotAnAdmin(tok) == tok = NoToken \/ ~ tok.isAdmin

\* POST /users: ensureAdmin, validateSchema(userRegisterSchema), then
\* User.register({ ...req.body }).
PostUsers(tok, valid, taken, bodyAdmin) ==
  IF NotAnAdmin(tok)
  THEN /\ last' = Failed("POST /users", Err("Unauthorized", "You must be an admin."))
       /\ UNCHANGED <<authVars, inflight, users, friendVars, tripVars, planVars>>
  ELSE IF ~ valid
  THEN /\ last' = Failed("POST /users", Err("BadRequest", "validation"))
       /\ UNCHANGED <<authVars, inflight, users, friendVars, tripVars, planVars>>
  ELSE DoRegister("POST /users", tok, taken, BodyIsAdmin(bodyAdmin))

\* POST /auth/token: User.authenticate(username, password) finds the row and
\* compares the password; the token carries the row's is_admin.
PostToken(name, passwordOk) ==
  /\ IF name \in users /\ passwordOk
     THEN /\ tokens' = tokens \cup {createToken(name, name \in is_admin)}
          /\ last' = Done("POST /auth/token", name, 0, 0, 0)
     ELSE /\ tokens' = tokens
          /\ last' = Failed("POST /auth/token",
                            Err("Unauthorized", "Invalid username/password"))
  /\ UNCHANGED <<is_admin, nextUserId, inflight, users, friendVars, tripVars, planVars>>

\* ensureCorrectUserOrAdmin: the token is that user's, or an admin's.
NotCorrectUserOrAdmin(tok, name) ==
  tok = NoToken \/ (tok.id # name /\ ~ tok.isAdmin)

\* userUpdateSchema: at least one key, each of them firstName, lastName,
\* email, profilePic or bio.  `field` is the body's one key, "none" for an
\* empty body.
UpdateSchemaRejects(field) == field \notin {"firstName", "lastName", "email", "profilePic", "bio"}

\* PATCH /users/:username: ensureCorrectUserOrAdmin,
\* validateSchema(userUpdateSchema), then User.update(username, body), whose
\* UPDATE sets the body's columns of the row with that username.
PatchUser(tok, name, field) ==
  /\ last' =
       IF NotCorrectUserOrAdmin(tok, name)
       THEN Failed("PATCH /users/:username",
                   Err("Unauthorized", "You do not have permission to access this page."))
       ELSE IF UpdateSchemaRejects(field)
       THEN Failed("PATCH /users/:username", Err("BadRequest", "validation"))
       ELSE IF name \notin users
       THEN Failed("PATCH /users/:username", Err("NotFound", "No user"))
       ELSE Done("PATCH /users/:username", tok.id, name, 0, 0)
  /\ UNCHANGED <<authVars, inflight, users, friendVars, tripVars, planVars>>

\* DELETE /users/:username by the holder of a token: ensureCorrectUserOrAdmin,
\* then User.remove(username).
DeleteUserAs(tok, name) ==
  IF NotCorrectUserOrAdmin(tok, name)
  THEN /\ last' = Failed("DELETE /users/:username",
                    Err("Unauthorized", "You do not have permission to access this page."))
       /\ UNCHANGED <<authVars, inflight, users, friendVars, tripVars, planVars>>
  ELSE DoUserRemove("DELETE /users/:username", tok.id, name)

----------------------------------------------------------------------------
(* Friend routes *)

MustLogIn == Err("Unauthorized", "You must be logged in.")

\* POST /friends/:recipientId
PostFriend(caller, recipientId) ==
  IF NotLoggedIn(caller)
  THEN /\ last' = Failed("POST /friends/:recipientId", MustLogIn)
       /\ UNCHANGED <<authVars, inflight, users, friendVars, tripVars, planVars>>
  ELSE DoSendFriendRequest("POST /friends/:recipientId", caller, recipientId)

\* PATCH /users/:username/friend-request: User.get(username) throws NotFound
\* for a missing user; the caller is passed as the recipient.
PatchFriendRequest(caller, username) ==
  IF NotLoggedIn(caller)
  THEN /\ last' = Failed("PATCH /users/:username/friend-request", MustLogIn)
       /\ UNCHANGED <<authVars, inflight, users, friendVars, tripVars, planVars>>
  ELSE IF username \notin users
  THEN /\ last' = Failed("PATCH /users/:username/friend-request",
                         Err("NotFound", "No user found"))
       /\ UNCHANGED <<authVars, inflight, users, friendVars, tripVars, planVars>>
  ELSE DoAcceptFriendRequest("PATCH /users/:username/friend-request",
                             username, caller)

\* Friend.getById(id): the rows with that id, none when there is no such row.
getById(id) == {f \in friend : f.id = id}

\* Friend.acceptFriendRequest(friendId, userId), called as `op`: not-found for
\* an id without a row, bad-request for a request that is not pending or for
\* an acting user who is not its recipient, else the row becomes accepted.
DoAcceptById(op, friendId, userId) ==
  /\ IF getById(friendId) = {}
     THEN /\ friend' = friend
          /\ last' = Failed(op, Err("NotFound", "No friend request found"))
     ELSE \E request \in getById(friendId) :
            IF request.status # "pending"
            THEN /\ friend' = friend
                 /\ last' = Failed(op, Err("BadRequest", "Friend request is not pending."))
            ELSE IF userId # request.recipient_id
            THEN /\ friend' = friend
                 /\ last' = Failed(op, Err("BadRequest",
                                "Only the recipient can accept the friend request."))
            ELSE /\ friend' = {IF f.id = friendId
                                THEN [f EXCEPT !.status = "accepted"] ELSE f :
                                f \in friend}
                 /\ last' = Done(op, userId, friendId, 0, friendId)
  /\ UNCHANGED <<authVars, inflight, nextFriendId, users, tripVars, planVars>>

\* Friend.remove(friendId), called as `op`: not-found for an id without a
\* row, else the row is deleted whatever its status.
DoRemoveById(op, caller, friendId) ==
  /\ friend' = friend \ getById(friendId)
  /\ last' = IF getById(friendId) = {}
             THEN Failed(op, Err("NotFound", "No friend request found"))
             ELSE Done(op, caller, friendId, 0, friendId)
  /\ UNCHANGED <<authVars, inflight, nextFriendId, users, tripVars, planVars>>

\* The participant guard, left out.
NotAParticipantNever(friendship, currentUserId) == FALSE

\* ensureFriendRelationship's guard: the current user is neither side.
NotAParticipant(friendship, currentUserId) ==
  friendship.sender_id # currentUserId /\ friendship.recipient_id # currentUserId

\* ensureLoggedIn, then ensureFriendRelationship: the friendship is looked up
\* by id, and a user who is not part of it is refused.
FriendChain(caller, friendId) ==
  IF NotLoggedIn(caller) THEN MustLogIn
  ELSE IF getById(friendId) = {}
  THEN Err("NotFound", "No friend request found")
  ELSE IF \E friendship \in getById(friendId) : NotAParticipant(friendship, caller)
  THEN Err("Unauthorized", "You do not have permission to modify this friend request.")
  ELSE Ok

\* PATCH /friends/:friendId
PatchFriend(caller, friendId) ==
  IF FriendChain(caller, friendId) # Ok
  THEN /\ last' = Failed("PATCH /friends/:friendId", FriendChain(caller, friendId))
       /\ UNCHANGED <<authVars, inflight, users, friendVars, tripVars, planVars>>
  ELSE DoAcceptById("PATCH /friends/:friendId", friendId, caller)

\* DELETE /friends/:friendId
DeleteFriend(caller, friendId) ==
  IF FriendChain(caller, friendId) # Ok
  THEN /\ last' = Failed("DELETE /friends/:friendId", FriendChain(caller, friendId))
       /\ UNCHANGED <<authVars, inflight, users, friendVars, tripVars, planVars>>
  ELSE DoRemoveById("DELETE /friends/:friendId", caller, friendId)

----------------------------------------------------------------------------
(* TripMember *)

\* addMember's role guard.
InvalidRole(role) == role \notin {"owner", "member"}

\* addMember's duplicateCheck query, finding nothing.
MemberDuplicateCheckNone(userId, tripId) == {}

\* addMember's duplicateCheck query.
MemberDuplicateCheck(userId, tripId) ==
  {m \in trip_member : m.user_id = userId /\ m.trip_id = tripId}

\* What the INSERT INTO trip_member meets in the schema: user_id NOT NULL,
\* both foreign keys and UNIQUE (user_id, trip_id).  `trips` is the trip
\* table at that moment; a user id of 0 stands for NULL.
MemberInsertConstraints(trips, userId, tripId) ==
  IF userId = 0
  THEN Err("DbError", "violates not-null constraint")
  ELSE IF userId \notin users \/ tripId \notin {t.id : t \in trips}
  THEN Err("DbError", "violates foreign key constraint")
  ELSE IF \E m \in trip_member : m.user_id = userId /\ m.trip_id = tripId
  THEN Err("DbError", "violates unique constraint")
  ELSE Ok

\* TripMember.addMember(userId, tripId, role): its outcome.
AddMemberResult(trips, userId, tripId, role) ==
  IF InvalidRole(role)
  THEN Err("BadRequest", "Invalid role. Must be 'owner' or 'member'.")
  ELSE IF MemberDuplicateCheck(userId, tripId) # {}
  THEN Err("BadRequest", "User is already a member of this trip.")
  ELSE MemberInsertConstraints(trips, userId, tripId)

\* TripMember.addMember: the table after the call.
AddMemberTable(e, userId, tripId, role) ==
  IF e = Ok
  THEN trip_member \cup {MemberRow(nextMemberId, userId, tripId, role)}
  ELSE trip_member

\* TripMember.addMember(userId, tripId, role) called directly.
AddMember(userId, tripId, role) ==
  LET e == AddMemberResult(trip, userId, tripId, role) IN
  /\ trip_member' = AddMemberTable(e, userId, tripId, role)
  /\ nextMemberId' = IF e = Ok THEN nextMemberId + 1 ELSE nextMemberId
  /\ last' = IF e = Ok
             THEN Done("TripMember.addMember", userId, tripId, 0, nextMemberId)
             ELSE Failed("TripMember.addMember", e)
  /\ UNCHANGED <<authVars, inflight, users, friendVars, trip, nextTripId, planVars>>

\* The rows TripMember.removeMember(tripMemberId) deletes.
RemoveMemberMatch(tripMemberId) ==
  {m \in trip_member : m.id = tripMemberId}

\* TripMember.removeMember(tripMemberId) called directly.
RemoveMember(tripMemberId) ==
  LET deleted == RemoveMemberMatch(tripMemberId) IN
  /\ trip_member' = trip_member \ deleted
  /\ last' = IF deleted = {}
             THEN Failed("TripMember.removeMember",
                         Err("NotFound", "No trip member found with trip member id"))
             ELSE Done("TripMember.removeMember", tripMemberId, 0, 0, 0)
  /\ UNCHANGED <<authVars, inflight, users, friendVars, trip, nextTripId, nextMemberId, planVars>>

\* TripMember.isMember(userId, tripId): the row, or none.
isMember(userId, tripId) ==
  {m \in trip_member : m.user_id = userId /\ m.trip_id = tripId}

----------------------------------------------------------------------------
(* Trip *)

\* The role Trip.create gives its creator, got wrong.
CreatorRoleMember == "member"

\* The role Trip.create gives its creator.
CreatorRole == "owner"

\* Trip.create({..., isPrivate, creatorId}), called as `op`: INSERT INTO trip,
\* then TripMember.addMember(trip.creatorId, trip.id, "owner").  The two
\* statements are not in a transaction: the trip row stays if addMember throws.
\* A creatorId of 0 stands for a missing one, bound as NULL: trip.creator_id
\* is nullable, so the first INSERT takes it.
DoTripCreate(op, creatorId, priv) ==
  IF creatorId # 0 /\ creatorId \notin users
  THEN /\ last' = Failed(op, Err("DbError", "violates foreign key constraint"))
       /\ UNCHANGED <<authVars, inflight, users, friendVars, tripVars, planVars>>
  ELSE LET id == nextTripId
           trips1 == trip \cup {TripRow(id, creatorId, priv)}
           e == AddMemberResult(trips1, creatorId, id, CreatorRole)
       IN /\ trip' = trips1
          /\ nextTripId' = nextTripId + 1
          /\ trip_member' = AddMemberTable(e, creatorId, id, CreatorRole)
          /\ nextMemberId' = IF e = Ok THEN nextMemberId + 1 ELSE nextMemberId
          /\ last' = IF e = Ok THEN Done(op, creatorId, priv, 0, id)
                     ELSE Failed(op, e)
          /\ UNCHANGED <<authVars, inflight, users, friendVars, planVars>>

\* Trip.isOwner answering from the membership table instead.
isOwnerOrMember(userId, tripId) ==
  \E m \in trip_member : m.user_id = userId /\ m.trip_id = tripId

\* Trip.isOwner(userId, tripId).
isOwner(userId, tripId) ==
  \E t \in trip : t.id = tripId /\ t.creator_id = userId

\* ensureTripExists: Trip.get(tripId) throws NotFound when there is no row.
TripMissing(tripId) == ~ \E t \in trip : t.id = tripId

\* trip.id referenced ON DELETE CASCADE by trip_member.trip_id.
CascadeTripMember(tripId) == {m \in trip_member : m.trip_id # tripId}

\* trip.id referenced ON DELETE CASCADE by activity.trip_id.
CascadeTripActivity(tripId) == {a \in activity : a.trip_id # tripId}

\* trip.id referenced ON DELETE CASCADE by comment.trip_id.
CascadeTripComment(tripId) == {c \in comment : c.trip_id # tripId}

\* activity.id referenced ON DELETE CASCADE by vote.activity_id.
CascadeActivityVote(activities) ==
  {v \in vote : v.activity_id \in {a.id : a \in activities}}

----------------------------------------------------------------------------
(* Trip routes *)

\* The middleware chain ensureLoggedIn, ensureTripExists, ensureTripOwner:
\* the error it ends with, or Ok.
OwnerChain(caller, tripId) ==
  IF NotLoggedIn(caller) THEN MustLogIn
  ELSE IF TripMissing(tripId) THEN Err("NotFound", "No trip found with ID")
  ELSE IF ~isOwner(caller, tripId)
  THEN Err("Forbidden", "Only the trip owner can perform this action.")
  ELSE Ok

\* Trip.create called directly, as the model's own callers and tests do.
TripCreate(creatorId, priv) == DoTripCreate("Trip.create", creatorId, priv)

\* POST /trips
PostTrip(caller, priv) ==
  IF NotLoggedIn(caller)
  THEN /\ last' = Failed("POST /trips", MustLogIn)
       /\ UNCHANGED <<authVars, inflight, users, friendVars, tripVars, planVars>>
  ELSE DoTripCreate("POST /trips", caller, priv)

\* DELETE /trips/:tripId -> Trip.remove(tripId)
DeleteTrip(caller, tripId) ==
  LET e == OwnerChain(caller, tripId) IN
  /\ trip' = IF e = Ok THEN {t \in trip : t.id # tripId} ELSE trip
  /\ trip_member' = IF e = Ok THEN CascadeTripMember(tripId) ELSE trip_member
  /\ last' = IF e = Ok THEN Done("DELETE /trips/:tripId", caller, tripId, 0, 0)
             ELSE Failed("DELETE /trips/:tripId", e)
  /\ activity' = IF e = Ok THEN CascadeTripActivity(tripId) ELSE activity
  /\ comment' = IF e = Ok THEN CascadeTripComment(tripId) ELSE comment
  /\ vote' = IF e = Ok THEN CascadeActivityVote(CascadeTripActivity(tripId))
             ELSE vote
  /\ UNCHANGED <<authVars, inflight, users, friendVars, nextTripId, nextMemberId, nextActivityId,
                 nextCommentId>>

\* The handler's test `trip.isPrivate && !member`, never true.
HiddenFromNever(t, member) == FALSE

\* The handler's test `trip.isPrivate && !member` of GET /trips/:tripId.
HiddenFrom(t, member) == t.is_private = 1 /\ member = {}

\* GET /trips/:tripId: the outcome of ensureLoggedIn, ensureTripExists and
\* the handler.
GetTripResult(caller, tripId) ==
  IF NotLoggedIn(caller) THEN MustLogIn
  ELSE IF TripMissing(tripId) THEN Err("NotFound", "No trip found with ID")
  ELSE IF \E t \in trip : t.id = tripId /\ HiddenFrom(t, isMember(caller, tripId))
  THEN Err("Forbidden", "Unauthorized to view this trip.")
  ELSE Ok

\* GET /trips/:tripId: answers { trip } and writes nothing.
GetTrip(caller, tripId) ==
  LET e == GetTripResult(caller, tripId) IN
  /\ last' = IF e = Ok THEN Done("GET /trips/:tripId", caller, tripId, 0, tripId)
             ELSE Failed("GET /trips/:tripId", e)
  /\ UNCHANGED <<authVars, inflight, users, friendVars, tripVars, planVars>>

\* The handler's friendship test, never failing.
NotFriendsNever(userId, friendId) == FALSE

\* The handler's friendship test: `!areFriends`.
NotFriends(userId, friendId) == ~areFriends(userId, friendId)

\* POST /trips/:tripId/members { friendId }: the outcome of the middleware
\* chain and the handler.
PostMemberResult(caller, tripId, friendId) ==
  IF OwnerChain(caller, tripId) # Ok THEN OwnerChain(caller, tripId)
  ELSE IF friendId = 0 THEN Err("BadRequest", "Invalid or missing friendId.")
  ELSE IF NotFriends(caller, friendId)
  THEN Err("Forbidden", "You do not have friends with friendId")
  ELSE AddMemberResult(trip, friendId, tripId, "member")

\* POST /trips/:tripId/members { friendId }
PostMember(caller, tripId, friendId) ==
  LET e == PostMemberResult(caller, tripId, friendId) IN
  /\ trip_member' = AddMemberTable(e, friendId, tripId, "member")
  /\ nextMemberId' = IF e = Ok THEN nextMemberId + 1 ELSE nextMemberId
  /\ last' = IF e = Ok
             THEN Done("POST /trips/:tripId/members", caller, tripId, friendId,
                       nextMemberId)
             ELSE Failed("POST /trips/:tripId/members", e)
  /\ UNCHANGED <<authVars, inflight, users, friendVars, trip, nextTripId, planVars>>

\* DELETE /trips/:tripId/members/:memberId -> TripMember.removeMember(memberId)
DeleteMember(caller, tripId, memberId) ==
  LET chain == OwnerChain(caller, tripId)
      deleted == IF chain = Ok THEN RemoveMemberMatch(memberId) ELSE {}
  IN /\ trip_member' = trip_member \ deleted
     /\ last' = IF chain # Ok
                THEN Failed("DELETE /trips/:tripId/members/:memberId", chain)
                ELSE IF deleted = {}
                THEN Failed("DELETE /trips/:tripId/members/:memberId",
                            Err("NotFound", "No trip member found with trip member id"))
                ELSE Done("DELETE /trips/:tripId/members/:memberId", caller,
                          tripId, memberId, 0)
     /\ UNCHANGED <<authVars, inflight, users, friendVars, trip, nextTripId, nextMemberId, planVars>>

----------------------------------------------------------------------------
(* Vote *)

\* The values castVote accepts.
VoteValues == {1, 0, -1}

\* SELECT * FROM vote WHERE user_id = $1 AND activity_id = $2, got wrong:
\* the row is never found.
existingVoteNone(userId, activityId) == {}

\* SELECT * FROM vote WHERE user_id = $1 AND activity_id = $2
existingVote(userId, activityId) ==
  {v \in vote : v.user_id = userId /\ v.activity_id = activityId}

\* voteValue === 0, got wrong: no value asks for removal.
IsRemovalNever(voteValue) == FALSE

\* voteValue === 0
IsRemoval(voteValue) == voteValue = 0

\* UPDATE vote SET vote_value = $1, got wrong: the stored value is kept.
VoteUpdateKeep(rows, voteValue) == rows

\* UPDATE vote SET vote_value = $1 WHERE user_id = $2 AND activity_id = $3
VoteUpdate(rows, voteValue) ==
  {VoteRow(v.user_id, v.activity_id, voteValue) : v \in rows}

\* INSERT INTO vote: user_id REFERENCES users, activity_id REFERENCES
\* activity, PRIMARY KEY (user_id, activity_id).  A violation is a raw
\* driver error.
VoteInsertConstraints(userId, activityId) ==
  IF userId \notin users
  THEN Err("DbError", "violates foreign key constraint")
  ELSE IF ~ \E a \in activity : a.id = activityId
  THEN Err("DbError", "violates foreign key constraint")
  ELSE IF \E v \in vote : v.user_id = userId /\ v.activity_id = activityId
  THEN Err("DbError", "violates unique constraint")
  ELSE Ok

\* Vote.castVote(userId, activityId, voteValue): its outcome.
CastVoteResult(userId, activityId, voteValue) ==
  IF voteValue \notin VoteValues
  THEN Err("BadRequest", "Invalid vote value.")
  ELSE IF existingVote(userId, activityId) # {}
  THEN Ok
  ELSE IF IsRemoval(voteValue)
  THEN Err("BadRequest", "No existing vote to remove.")
  ELSE VoteInsertConstraints(userId, activityId)

\* Vote.castVote: the vote table after a call that did not throw.
CastVoteTable(userId, activityId, voteValue) ==
  LET rows == existingVote(userId, activityId) IN
  IF rows # {}
  THEN IF IsRemoval(voteValue)
       THEN vote \ rows
       ELSE (vote \ rows) \cup VoteUpdate(rows, voteValue)
  ELSE vote \cup {VoteRow(userId, activityId, voteValue)}

\* Vote.castVote called as `op`; it returns { userId, activityId, voteValue }.
DoCastVote(op, userId, activityId, voteValue) ==
  LET e == CastVoteResult(userId, activityId, voteValue) IN
  /\ vote' = IF e = Ok THEN CastVoteTable(userId, activityId, voteValue) ELSE vote
  /\ last' = IF e = Ok THEN Done(op, 0, 0, 0, voteValue) ELSE Failed(op, e)
  /\ UNCHANGED <<authVars, inflight, users, friendVars, tripVars, activity, nextActivityId,
                 comment, nextCommentId>>

\* Vote.castVote called directly.
castVote(userId, activityId, voteValue) ==
  DoCastVote("Vote.castVote", userId, activityId, voteValue)

\* Vote.remove(userId, activityId)
VoteRemove(userId, activityId) ==
  LET deleted == {v \in vote : v.user_id = userId /\ v.activity_id = activityId} IN
  /\ vote' = vote \ deleted
  /\ last' = IF deleted = {}
             THEN Failed("Vote.remove", Err("NotFound", "No vote found for user on activity"))
             ELSE Done("Vote.remove", 0, 0, 0, 0)
  /\ UNCHANGED <<authVars, inflight, users, friendVars, tripVars, activity, nextActivityId,
                 comment, nextCommentId>>

\* CASE WHEN vote_value = value THEN 1 ELSE 0 END, got wrong: every row
\* counts.
CaseWhenAlways(v, value) == 1

\* CASE WHEN vote_value = value THEN 1 ELSE 0 END
CaseWhen(v, value) == IF v.vote_value = value THEN 1 ELSE 0

\* The sum of the CASE expression over a set of rows.
RECURSIVE SumRows(_, _)
SumRows(rows, value) ==
  IF rows = {} THEN 0
  ELSE LET v == CHOOSE x \in rows : TRUE
       IN CaseWhen(v, value) + SumRows(rows \ {v}, value)

\* SELECT SUM(CASE ...) FROM vote WHERE activity_id = $1: the one result
\* row's column, <<>> for the NULL that SUM gives over no rows and <<n>>
\* for the sum n.
SumCase(votes, activityId, value) ==
  LET rows == {v \in votes : v.activity_id = activityId} IN
  IF rows = {} THEN <<>> ELSE <<SumRows(rows, value)>>

\* Number(column) || 0: Number(null) is 0, and 0 falls through to the 0.
NumberOrZero(column) ==
  LET n == IF column = <<>> THEN 0 ELSE column[1] IN
  IF n # 0 THEN n ELSE 0

\* The { upvotes, downvotes } that Vote.getVotesForActivity computes from the
\* table `votes`.
VoteTally(votes, activityId) ==
  [upvotes |-> NumberOrZero(SumCase(votes, activityId, 1)),
   downvotes |-> NumberOrZero(SumCase(votes, activityId, -1))]

\* Vote.getVotesForActivity(activityId): { upvotes, downvotes }
getVotesForActivity(activityId) == VoteTally(vote, activityId)

\* Vote.getVotesForActivity called directly: it only reads.
GetVotesForActivity(activityId) ==
  /\ last' = Done("Vote.getVotesForActivity", activityId,
                  getVotesForActivity(activityId).upvotes,
                  getVotesForActivity(activityId).downvotes, 0)
  /\ UNCHANGED <<authVars, inflight, users, friendVars, tripVars, planVars>>

----------------------------------------------------------------------------
(* Comment, activity and vote routes *)

\* !member in ensureTripMember, got wrong: nobody is turned away.
NotAMemberNever(member) == FALSE

\* !member in ensureTripMember
NotAMember(member) == member = {}

MustBeMember ==
  Err("Forbidden", "You must be a member of this trip to perform this action")

\* ensureLoggedIn, ensureTripExists, ensureTripMember: the first to refuse.
MemberChain(caller, tripId) ==
  IF NotLoggedIn(caller) THEN MustLogIn
  ELSE IF TripMissing(tripId) THEN Err("NotFound", "No trip found with ID")
  ELSE IF NotAMember(isMember(caller, tripId)) THEN MustBeMember
  ELSE Ok

\* ensureLoggedIn, ensureTripMember, ensureTripExists: the order of
\* DELETE /trips/:tripId/comments/:commentId.
MemberFirstChain(caller, tripId) ==
  IF NotLoggedIn(caller) THEN MustLogIn
  ELSE IF NotAMember(isMember(caller, tripId)) THEN MustBeMember
  ELSE IF TripMissing(tripId) THEN Err("NotFound", "No trip found with ID")
  ELSE Ok

\* PATCH /trips/:tripId with a body { isPrivate } that passes
\* tripUpdateSchema: Trip.update sets the column of that row.
PatchTrip(caller, tripId, priv) ==
  LET e == MemberChain(caller, tripId) IN
  /\ trip' = IF e = Ok
             THEN {IF t.id = tripId THEN [t EXCEPT !.is_private = priv] ELSE t :
                   t \in trip}
             ELSE trip
  /\ last' = IF e = Ok THEN Done("PATCH /trips/:tripId", 0, 0, 0, tripId)
             ELSE Failed("PATCH /trips/:tripId", e)
  /\ UNCHANGED <<authVars, inflight, users, friendVars, nextTripId, trip_member,
                 nextMemberId, planVars>>

\* POST /trips/:tripId/comments with body { text }: its outcome.
PostCommentResult(caller, tripId, text) ==
  LET e == MemberChain(caller, tripId) IN
  IF e # Ok THEN e
  ELSE IF text = "" THEN Err("BadRequest", "Comment text cannot be empty.")
  ELSE Ok

\* POST /trips/:tripId/comments
PostComment(caller, tripId, text) ==
  LET e == PostCommentResult(caller, tripId, text) IN
  /\ comment' = IF e = Ok
                THEN comment \cup {CommentRow(nextCommentId, caller, tripId)}
                ELSE comment
  /\ nextCommentId' = IF e = Ok THEN nextCommentId + 1 ELSE nextCommentId
  /\ last' = IF e = Ok THEN Done("POST /trips/:tripId/comments", 0, 0, 0, nextCommentId)
             ELSE Failed("POST /trips/:tripId/comments", e)
  /\ UNCHANGED <<authVars, inflight, users, friendVars, tripVars, activity, nextActivityId, vote>>

\* comment.userId !== userId, got wrong: anyone passes for the author.
NotTheAuthorNever(c, userId) == FALSE

\* comment.userId !== userId
NotTheAuthor(c, userId) == c.user_id # userId

\* DELETE /trips/:tripId/comments/:commentId: its outcome.
DeleteCommentResult(caller, tripId, commentId) ==
  LET e == MemberFirstChain(caller, tripId)
      found == {c \in comment : c.id = commentId}
  IN IF e # Ok THEN e
     ELSE IF found = {} THEN Err("NotFound", "No comment found with ID")
     ELSE IF \E c \in found : c.trip_id # tripId
     THEN Err("Forbidden", "Comment does not belong to this trip.")
     ELSE IF \E c \in found : NotTheAuthor(c, caller)
     THEN Err("Forbidden", "You are not authorized to delete this comment.")
     ELSE Ok

\* DELETE /trips/:tripId/comments/:commentId
DeleteComment(caller, tripId, commentId) ==
  LET e == DeleteCommentResult(caller, tripId, commentId) IN
  /\ comment' = IF e = Ok THEN {c \in comment : c.id # commentId} ELSE comment
  /\ last' = IF e = Ok
             THEN Done("DELETE /trips/:tripId/comments/:commentId", 0, 0, 0, commentId)
             ELSE Failed("DELETE /trips/:tripId/comments/:commentId", e)
  /\ UNCHANGED <<authVars, inflight, users, friendVars, tripVars, activity, nextActivityId,
                 nextCommentId, vote>>

\* POST /trips/:tripId/activities with a body that passes activityNewSchema.
PostActivity(caller, tripId, name) ==
  LET e == MemberChain(caller, tripId) IN
  /\ activity' = IF e = Ok
                 THEN activity \cup {ActivityRow(nextActivityId, tripId, caller, name)}
                 ELSE activity
  /\ nextActivityId' = IF e = Ok THEN nextActivityId + 1 ELSE nextActivityId
  /\ last' = IF e = Ok
             THEN Done("POST /trips/:tripId/activities", 0, 0, 0, nextActivityId)
             ELSE Failed("POST /trips/:tripId/activities", e)
  /\ UNCHANGED <<authVars, inflight, users, friendVars, tripVars, comment, nextCommentId, vote>>

\* activity.tripId !== Number(tripId), got wrong: any trip's path will do.
OtherTripsNever(a, tripId) == FALSE

\* activity.tripId !== Number(tripId)
OtherTrips(a, tripId) == a.trip_id # tripId

\* Activity.get(activityId), then activity.tripId !== Number(tripId).
ActivityOfTrip(tripId, activityId) ==
  LET found == {a \in activity : a.id = activityId} IN
  IF found = {} THEN Err("NotFound", "No activity found with id")
  ELSE IF \E a \in found : OtherTrips(a, tripId)
  THEN Err("Forbidden", "Activity does not belong to this trip.")
  ELSE Ok

\* The middleware chain, then the activity lookup of the activity routes.
ActivityChain(caller, tripId, activityId) ==
  LET e == MemberChain(caller, tripId) IN
  IF e # Ok THEN e ELSE ActivityOfTrip(tripId, activityId)

\* PATCH /trips/:tripId/activities/:activityId with body { name }
PatchActivity(caller, tripId, activityId, name) ==
  LET e == ActivityChain(caller, tripId, activityId) IN
  /\ activity' = IF e = Ok
                 THEN {IF a.id = activityId
                       THEN ActivityRow(a.id, a.trip_id, a.created_by, name)
                       ELSE a : a \in activity}
                 ELSE activity
  /\ last' = IF e = Ok
             THEN Done("PATCH /trips/:tripId/activities/:activityId", 0, 0, 0, activityId)
             ELSE Failed("PATCH /trips/:tripId/activities/:activityId", e)
  /\ UNCHANGED <<authVars, inflight, users, friendVars, tripVars, nextActivityId, comment,
                 nextCommentId, vote>>

\* DELETE /trips/:tripId/activities/:activityId; the activity's votes go
\* with it.
DeleteActivity(caller, tripId, activityId) ==
  LET e == ActivityChain(caller, tripId, activityId)
      kept == {a \in activity : a.id # activityId}
  IN /\ activity' = IF e = Ok THEN kept ELSE activity
     /\ vote' = IF e = Ok THEN CascadeActivityVote(kept) ELSE vote
     /\ last' = IF e = Ok
                THEN Done("DELETE /trips/:tripId/activities/:activityId", 0, 0, 0, activityId)
                ELSE Failed("DELETE /trips/:tripId/activities/:activityId", e)
     /\ UNCHANGED <<authVars, inflight, users, friendVars, tripVars, nextActivityId, comment,
                    nextCommentId>>

\* POST /trips/:tripId/activities/:activityId/vote with body { voteValue }:
\* what refuses the request before Vote.castVote is called.
PostVoteChain(caller, tripId, activityId, voteValue) ==
  LET e == MemberChain(caller, tripId) IN
  IF e # Ok THEN e
  ELSE IF voteValue \notin {1, 0, -1}
  THEN Err("BadRequest", "\"voteValue\" must be one of [1, 0, -1]")
  ELSE ActivityOfTrip(tripId, activityId)

\* POST /trips/:tripId/activities/:activityId/vote
PostVote(caller, tripId, activityId, voteValue) ==
  LET e == PostVoteChain(caller, tripId, activityId, voteValue) IN
  IF e # Ok
  THEN /\ last' = Failed("POST /trips/:tripId/activities/:activityId/vote", e)
       /\ UNCHANGED <<authVars, inflight, users, friendVars, tripVars, planVars>>
  ELSE DoCastVote("POST /trips/:tripId/activities/:activityId/vote",
                  caller, activityId, voteValue)

----------------------------------------------------------------------------
(* Calls that overlap: a model call is under way between its statements *)

\* A call takes the lowest free slot.
FreeSlot(i) ==
  /\ inflight[i] = Idle
  /\ \A j \in 1..(i - 1) : inflight[j] # Idle

Call(op, a, b, c) == [op |-> op, a |-> a, b |-> b, c |-> c]

\* Friend.sendFriendRequest up to its INSERT: the self-request guard and the
\* duplicateCheck query.
SendCheckResult(s, r) ==
  IF SelfRequest(s, r)
  THEN Err("BadRequest", "Friend request cannot be sent to yourself.")
  ELSE IF DuplicateCheck(s, r) # {}
  THEN Err("BadRequest", "Friend request already sent or you are already friends.")
  ELSE Ok

\* Friend.sendFriendRequest(s, r) runs its guard and its duplicateCheck; it
\* throws, or goes on to its INSERT.
BeginSendFriendRequest(i, s, r) ==
  LET e == SendCheckResult(s, r) IN
  /\ FreeSlot(i)
  /\ inflight' = IF e = Ok
                 THEN [inflight EXCEPT ![i] = Call("Friend.sendFriendRequest", s, r, 0)]
                 ELSE inflight
  /\ last' = IF e = Ok THEN last ELSE Failed("Friend.sendFriendRequest", e)
  /\ UNCHANGED <<authVars, users, friendVars, tripVars, planVars>>

\* The INSERT of the sendFriendRequest call in slot i.
EndSendFriendRequest(i) ==
  LET call == inflight[i]
      e == FriendInsertConstraints(call.a, call.b)
  IN /\ call.op = "Friend.sendFriendRequest"
     /\ friend' = IF e = Ok
                  THEN friend \cup {FriendRow(nextFriendId, call.a, call.b, "pending")}
                  ELSE friend
     /\ nextFriendId' = IF e = Ok THEN nextFriendId + 1 ELSE nextFriendId
     /\ last' = IF e = Ok
                THEN Done("Friend.sendFriendRequest", call.a, call.b, 0, nextFriendId)
                ELSE Failed("Friend.sendFriendRequest", e)
     /\ inflight' = [inflight EXCEPT ![i] = Idle]
     /\ UNCHANGED <<authVars, users, tripVars, planVars>>

\* Friend.acceptFriendRequest(s, r) runs its checkRequest query and its
\* recipient guard; it throws, or goes on to its UPDATE with the sender and
\* recipient of the row it read.
BeginAcceptFriendRequest(i, s, r) ==
  /\ FreeSlot(i)
  /\ IF CheckRequest(s, r) = {}
     THEN /\ inflight' = inflight
          /\ last' = Failed("Friend.acceptFriendRequest",
                            Err("NotFound", "No pending friend request between users"))
     ELSE \E request \in CheckRequest(s, r) :
            IF NotTheRecipient(r, request)
            THEN /\ inflight' = inflight
                 /\ last' = Failed("Friend.acceptFriendRequest",
                              Err("BadRequest",
                                  "Only the recipient can accept the friend request."))
            ELSE /\ inflight' = [inflight EXCEPT ![i] =
                                   Call("Friend.acceptFriendRequest",
                                        request.sender_id, request.recipient_id, 0)]
                 /\ last' = last
  /\ UNCHANGED <<authVars, users, friendVars, tripVars, planVars>>

\* The UPDATE ... RETURNING of the acceptFriendRequest call in slot i; the
\* call returns result.rows[0], which is undefined (ret 0) when the UPDATE
\* matched no row, and does not throw.
EndAcceptFriendRequest(i) ==
  LET call == inflight[i]
      matched == {f \in friend : f.sender_id = call.a /\ f.recipient_id = call.b}
  IN /\ call.op = "Friend.acceptFriendRequest"
     /\ friend' = AcceptUpdate([sender_id |-> call.a, recipient_id |-> call.b])
     /\ last' = Done("Friend.acceptFriendRequest", call.a, call.b, 0,
                     IF matched = {} THEN 0 ELSE (CHOOSE f \in matched : TRUE).id)
     /\ inflight' = [inflight EXCEPT ![i] = Idle]
     /\ UNCHANGED <<authVars, users, nextFriendId, tripVars, planVars>>

\* TripMember.addMember(userId, tripId) with the default role runs its
\* duplicateCheck; it throws, or goes on to its INSERT.
BeginAddMember(i, userId, tripId) ==
  LET dup == MemberDuplicateCheck(userId, tripId) # {} IN
  /\ FreeSlot(i)
  /\ inflight' = IF dup THEN inflight
                 ELSE [inflight EXCEPT ![i] = Call("TripMember.addMember", userId, tripId, 0)]
  /\ last' = IF dup
             THEN Failed("TripMember.addMember",
                         Err("BadRequest", "User is already a member of this trip."))
             ELSE last
  /\ UNCHANGED <<authVars, users, friendVars, tripVars, planVars>>

\* The INSERT of the addMember call in slot i.
EndAddMember(i) ==
  LET call == inflight[i]
      e == MemberInsertConstraints(trip, call.a, call.b)
  IN /\ call.op = "TripMember.addMember"
     /\ trip_member' = AddMemberTable(e, call.a, call.b, "member")
     /\ nextMemberId' = IF e = Ok THEN nextMemberId + 1 ELSE nextMemberId
     /\ last' = IF e = Ok
                THEN Done("TripMember.addMember", call.a, call.b, 0, nextMemberId)
                ELSE Failed("TripMember.addMember", e)
     /\ inflight' = [inflight EXCEPT ![i] = Idle]
     /\ UNCHANGED <<authVars, users, friendVars, trip, nextTripId, planVars>>

\* The statement Vote.castVote goes on to after its existingVote query.
CastVoteStatement(userId, activityId, voteValue) ==
  IF existingVote(userId, activityId) # {}
  THEN IF IsRemoval(voteValue) THEN "Vote.castVote DELETE" ELSE "Vote.castVote UPDATE"
  ELSE "Vote.castVote INSERT"

\* Vote.castVote(userId, activityId, voteValue) checks the value and runs its
\* existingVote query; it throws, or goes on to the statement chosen by what
\* the query found.
BeginCastVote(i, userId, activityId, voteValue) ==
  LET e == IF voteValue \notin VoteValues
           THEN Err("BadRequest", "Invalid vote value.")
           ELSE IF existingVote(userId, activityId) = {} /\ IsRemoval(voteValue)
           THEN Err("BadRequest", "No existing vote to remove.")
           ELSE Ok
  IN /\ FreeSlot(i)
     /\ inflight' = IF e = Ok
                    THEN [inflight EXCEPT ![i] =
                            Call(CastVoteStatement(userId, activityId, voteValue),
                                 userId, activityId, voteValue)]
                    ELSE inflight
     /\ last' = IF e = Ok THEN last ELSE Failed("Vote.castVote", e)
     /\ UNCHANGED <<authVars, users, friendVars, tripVars, planVars>>

\* The second statement of the castVote call in slot i.  The INSERT can
\* fail on the schema; the UPDATE returns rows[0], undefined when it matched
\* no row (c = 1 in the record of the call); the DELETE answers voteValue 0
\* whatever it matched.
EndCastVote(i) ==
  LET call == inflight[i]
      rows == {v \in vote : v.user_id = call.a /\ v.activity_id = call.b}
      e == IF call.op = "Vote.castVote INSERT"
           THEN VoteInsertConstraints(call.a, call.b) ELSE Ok
  IN /\ call.op \in {"Vote.castVote INSERT", "Vote.castVote UPDATE",
                     "Vote.castVote DELETE"}
     /\ vote' = IF e # Ok THEN vote
                ELSE IF call.op = "Vote.castVote INSERT"
                THEN vote \cup {VoteRow(call.a, call.b, call.c)}
                ELSE IF call.op = "Vote.castVote UPDATE"
                THEN (vote \ rows) \cup VoteUpdate(rows, call.c)
                ELSE vote \ rows
     /\ last' = IF e # Ok THEN Failed("Vote.castVote", e)
                ELSE IF call.op = "Vote.castVote UPDATE" /\ rows = {}
                THEN Done("Vote.castVote", 0, 0, 1, 0)
                ELSE Done("Vote.castVote", 0, 0, 0, call.c)
     /\ inflight' = [inflight EXCEPT ![i] = Idle]
     /\ UNCHANGED <<authVars, users, friendVars, tripVars, activity, nextActivityId,
                    comment, nextCommentId>>

----------------------------------------------------------------------------
(* Specifications *)

\* The caps: a call that would insert a row is taken only while the
\* sequence of its table is within the cap.
FriendRoom(s, r) ==
  SendFriendRequestResult(s, r) = Ok => nextFriendId <= MaxFriendId

TripRoom(creatorId) ==
  /\ (creatorId = 0 \/ creatorId \in users) => nextTripId <= MaxTripId
  /\ creatorId \in users => nextMemberId <= MaxMemberId

AddMemberRoom(userId, tripId, role) ==
  AddMemberResult(trip, userId, tripId, role) = Ok => nextMemberId <= MaxMemberId

MemberRoom(caller, tripId, friendId) ==
  PostMemberResult(caller, tripId, friendId) = Ok => nextMemberId <= MaxMemberId

\* The friend engine: account deletion, the Friend model's calls and the
\* friend routes.
Next ==
  \/ \E caller \in Callers, name \in UserIds : DeleteUser(caller, name)
  \/ \E s \in UserIds, r \in UserIds : FriendRoom(s, r) /\ SendFriendRequest(s, r)
  \/ \E s \in UserIds, r \in UserIds : AcceptFriendRequest(s, r)
  \/ \E s \in UserIds, r \in UserIds : FriendRemove(s, r)
  \/ \E caller \in Callers, r \in UserIds :
       FriendRoom(caller, r) /\ PostFriend(caller, r)
  \/ \E caller \in Callers, name \in UserIds : PatchFriendRequest(caller, name)

Spec == Init /\ [][Next]_vars

\* The trip engine starts where user 1 and user 2 are friends and, with a
\* third account, user 1 has a request to user 3 pending.
InitTrip ==
  /\ users = 1..NumUsers
  /\ friend = {FriendRow(1, 1, 2, "accepted")}
                \cup {FriendRow(2, 1, 3, "pending") : x \in {3} \cap UserIds}
  /\ nextFriendId = 3
  /\ trip = {}
  /\ nextTripId = 1
  /\ trip_member = {}
  /\ nextMemberId = 1
  /\ activity = {}
  /\ nextActivityId = 1
  /\ comment = {}
  /\ nextCommentId = 1
  /\ vote = {}
  /\ last = Done("init", 0, 0, 0, 0)
  /\ inflight = [i \in Slots |-> Idle]
  /\ is_admin = {}
  /\ nextUserId = NumUsers + 1
  /\ tokens = {}

\* The trip engine: account deletion and the trip and membership routes.
NextTrip ==
  \/ \E caller \in Callers, name \in UserIds : DeleteUser(caller, name)
  \/ \E caller \in Callers, priv \in {0, 1} :
       (~NotLoggedIn(caller) => TripRoom(caller)) /\ PostTrip(caller, priv)
  \/ \E caller \in Callers, t \in TripIds : GetTrip(caller, t)
  \/ \E caller \in Callers, t \in TripIds : DeleteTrip(caller, t)
  \/ \E caller \in Callers, t \in TripIds, f \in 0..NumUsers :
       MemberRoom(caller, t, f) /\ PostMember(caller, t, f)
  \/ \E caller \in Callers, t \in TripIds, m \in MemberIds :
       DeleteMember(caller, t, m)

SpecTrip == InitTrip /\ [][NextTrip]_vars

\* The membership engine: the Trip and TripMember model calls, made directly.
NextMember ==
  \/ \E creatorId \in Callers, priv \in {0, 1} :
       TripRoom(creatorId) /\ TripCreate(creatorId, priv)
  \/ \E u \in UserIds, t \in TripIds, role \in {"owner", "member", "admin"} :
       AddMemberRoom(u, t, role) /\ AddMember(u, t, role)
  \/ \E m \in MemberIds : RemoveMember(m)

SpecMember == InitTrip /\ [][NextMember]_vars

\* The planning engine starts from the fixture of the route tests: user 1
\* owns public trip 1, user 2 owns private trip 2, users 2 and 3 are
\* friends and user 1 has been added to trip 2.
InitPlan ==
  /\ users = 1..NumUsers
  /\ friend = {FriendRow(1, 2, 3, "accepted")}
  /\ nextFriendId = 2
  /\ trip = {TripRow(1, 1, 0), TripRow(2, 2, 1)}
  /\ nextTripId = 3
  /\ trip_member = {MemberRow(1, 1, 1, "owner"), MemberRow(2, 2, 2, "owner"),
                    MemberRow(3, 1, 2, "member")}
  /\ nextMemberId = 4
  /\ activity = {}
  /\ nextActivityId = 1
  /\ comment = {}
  /\ nextCommentId = 1
  /\ vote = {}
  /\ last = Done("init", 0, 0, 0, 0)
  /\ inflight = [i \in Slots |-> Idle]
  /\ is_admin = {}
  /\ nextUserId = NumUsers + 1
  /\ tokens = {}

\* The ids a request can name: the trips of the fixture; the activities and
\* comments issued so far and the next one, which names nothing.
PlanTripIds == {t.id : t \in trip}
PlanActivityIds == 1..nextActivityId
PlanCommentIds == 1..nextCommentId

\* A request that would insert an activity or a comment is taken only while
\* the two sequences together are within the cap.
PlanRoom(e) ==
  e = Ok => (nextActivityId - 1) + (nextCommentId - 1) < MaxPlanIds

\* The planning engine: the routes that write comments, activities and
\* votes, and the owner's removal of a member.
NextPlan ==
  \/ \E caller \in Callers, t \in PlanTripIds, text \in {"", "hi"} :
       PlanRoom(PostCommentResult(caller, t, text)) /\ PostComment(caller, t, text)
  \/ \E caller \in Callers, t \in PlanTripIds :
       PlanRoom(MemberChain(caller, t)) /\ PostActivity(caller, t, "a")
  \/ \E caller \in Callers, t \in PlanTripIds, a \in PlanActivityIds :
       PatchActivity(caller, t, a, "b")
  \/ \E caller \in Callers, t \in PlanTripIds, a \in PlanActivityIds :
       DeleteActivity(caller, t, a)
  \/ \E caller \in Callers, t \in PlanTripIds, a \in PlanActivityIds,
          v \in {1, 0, -1, 2} :
       PostVote(caller, t, a, v)
  \/ \E caller \in Callers : \E m \in trip_member :
       m.role = "member" /\ DeleteMember(caller, m.trip_id, m.id)

SpecPlan == InitPlan /\ [][NextPlan]_vars

\* The comment engine: comments are posted and deleted while owners remove
\* memberships and members change the trip; a request can name the trip id
\* that has no row yet.
NextComment ==
  \/ \E caller \in Callers, t \in PlanTripIds, text \in {"", "hi"} :
       PlanRoom(PostCommentResult(caller, t, text)) /\ PostComment(caller, t, text)
  \/ \E caller \in Callers, t \in 1..nextTripId, c \in PlanCommentIds :
       DeleteComment(caller, t, c)
  \/ \E caller \in Callers, t \in 1..nextTripId, priv \in {0, 1} :
       PatchTrip(caller, t, priv)
  \/ \E caller \in Callers, t \in PlanTripIds, m \in 1..nextMemberId :
       DeleteMember(caller, t, m)

SpecComment == InitPlan /\ [][NextComment]_vars

\* The two-trip membership engine: from the fixture's state, any requester
\* asks to remove any membership id through the path of either trip, reads a
\* trip or deletes one.
NextTwoTrips ==
  \/ \E caller \in Callers, t \in PlanTripIds, m \in 1..nextMemberId :
       DeleteMember(caller, t, m)
  \/ \E caller \in Callers, t \in PlanTripIds : GetTrip(caller, t)
  \/ \E caller \in Callers, t \in PlanTripIds : DeleteTrip(caller, t)

SpecTwoTrips == InitPlan /\ [][NextTwoTrips]_vars

\* The vote engine starts after the fixture has added an activity to trip 2
\* in the name of user 1.
InitVote ==
  /\ users = 1..NumUsers
  /\ friend = {FriendRow(1, 2, 3, "accepted")}
  /\ nextFriendId = 2
  /\ trip = {TripRow(1, 1, 0), TripRow(2, 2, 1)}
  /\ nextTripId = 3
  /\ trip_member = {MemberRow(1, 1, 1, "owner"), MemberRow(2, 2, 2, "owner"),
                    MemberRow(3, 1, 2, "member")}
  /\ nextMemberId = 4
  /\ activity = {ActivityRow(1, 2, 1, "a")}
  /\ nextActivityId = 2
  /\ comment = {CommentRow(1, 1, 2)}
  /\ nextCommentId = 2
  /\ vote = {}
  /\ last = Done("init", 0, 0, 0, 0)
  /\ inflight = [i \in Slots |-> Idle]
  /\ is_admin = {}
  /\ nextUserId = NumUsers + 1
  /\ tokens = {}

\* The activity engine: from the fixture's state with its activity in trip
\* 2, the activity is changed, deleted and voted on through the path of
\* either trip, while the owner can remove the member.
NextActivity ==
  \/ \E caller \in Callers, t \in PlanTripIds, a \in PlanActivityIds, name \in {"a", "b"} :
       PatchActivity(caller, t, a, name)
  \/ \E caller \in Callers, t \in PlanTripIds, a \in PlanActivityIds :
       DeleteActivity(caller, t, a)
  \/ \E caller \in Callers, t \in PlanTripIds, a \in PlanActivityIds,
          v \in {1, 0, -1, 2} :
       PostVote(caller, t, a, v)
  \/ \E caller \in Callers : \E m \in trip_member :
       m.role = "member" /\ DeleteMember(caller, m.trip_id, m.id)

SpecActivity == InitVote /\ [][NextActivity]_vars

\* The vote engine: the Vote model's calls, made directly for any user id
\* and activity id, present or not.
NextVote ==
  \/ \E u \in 1..(NumUsers + 1), a \in PlanActivityIds, v \in {1, 0, -1, 2} :
       castVote(u, a, v)
  \/ \E u \in 1..(NumUsers + 1), a \in PlanActivityIds : VoteRemove(u, a)
  \/ \E a \in PlanActivityIds : GetVotesForActivity(a)

SpecVote == InitVote /\ [][NextVote]_vars

\* The account engine: User.remove, with votes and friend requests made in
\* between, from the state the fixture leaves.
NextUser ==
  \/ \E name \in UserIds : UserRemove(name)
  \/ \E u \in UserIds, a \in PlanActivityIds, v \in {1, -1} : castVote(u, a, v)
  \/ \E s \in UserIds, r \in UserIds : FriendRoom(s, r) /\ SendFriendRequest(s, r)

SpecUser == InitVote /\ [][NextUser]_vars

\* A sendFriendRequest is begun only while the ids its INSERT and those of
\* the calls under way would take are within the cap.
RaceFriendRoom(s, r) ==
  SendCheckResult(s, r) = Ok =>
    nextFriendId + Cardinality({j \in Slots :
                                  inflight[j].op = "Friend.sendFriendRequest"})
      <= MaxFriendId

\* The friend engine with overlapping calls: sendFriendRequest and
\* acceptFriendRequest take two steps each, Friend.remove is one statement.
NextFriendRace ==
  \/ \E i \in Slots, s \in UserIds, r \in UserIds :
       RaceFriendRoom(s, r) /\ BeginSendFriendRequest(i, s, r)
  \/ \E i \in Slots : EndSendFriendRequest(i)
  \/ \E i \in Slots, s \in UserIds, r \in UserIds : BeginAcceptFriendRequest(i, s, r)
  \/ \E i \in Slots : EndAcceptFriendRequest(i)
  \/ \E s \in UserIds, r \in UserIds : FriendRemove(s, r)

SpecFriendRace == Init /\ [][NextFriendRace]_vars

\* The insert engine starts where user 1 has created public trip 1 and an
\* activity in it.
InitRace ==
  /\ users = 1..NumUsers
  /\ friend = {}
  /\ nextFriendId = 1
  /\ trip = {TripRow(1, 1, 0)}
  /\ nextTripId = 2
  /\ trip_member = {MemberRow(1, 1, 1, "owner")}
  /\ nextMemberId = 2
  /\ activity = {ActivityRow(1, 1, 1, "a")}
  /\ nextActivityId = 2
  /\ comment = {}
  /\ nextCommentId = 1
  /\ vote = {}
  /\ last = Done("init", 0, 0, 0, 0)
  /\ inflight = [i \in Slots |-> Idle]
  /\ is_admin = {}
  /\ nextUserId = NumUsers + 1
  /\ tokens = {}

\* The insert engine: overlapping addMember calls and overlapping castVote
\* calls, for users, trips and activities that exist.
NextInsertRace ==
  \/ \E i \in Slots, u \in UserIds : \E t \in trip :
       nextMemberId <= MaxMemberId /\ BeginAddMember(i, u, t.id)
  \/ \E i \in Slots : EndAddMember(i)
  \/ \E i \in Slots, u \in UserIds, v \in {1, 0, -1} : \E a \in activity :
       BeginCastVote(i, u, a.id, v)
  \/ \E i \in Slots : EndCastVote(i)

SpecInsertRace == InitRace /\ [][NextInsertRace]_vars

\* The friend routes addressed by relationship id: requests are sent, then
\* accepted or deleted by id.
NextFriendById ==
  \/ \E caller \in Callers, r \in UserIds :
       FriendRoom(caller, r) /\ PostFriend(caller, r)
  \/ \E caller \in Callers, id \in 1..nextFriendId : PatchFriend(caller, id)
  \/ \E caller \in Callers, id \in 1..nextFriendId : DeleteFriend(caller, id)

SpecFriendById == Init /\ [][NextFriendById]_vars

\* The account engine: one seeded admin; accounts are registered, log in,
\* are changed and deleted, and friend requests are sent, by the holders of
\* the tokens signed so far or by callers without one.
InitAdmin ==
  /\ users = {1}
  /\ is_admin = {1}
  /\ nextUserId = 2
  /\ tokens = {}
  /\ friend = {}
  /\ nextFriendId = 1
  /\ trip = {}
  /\ nextTripId = 1
  /\ trip_member = {}
  /\ nextMemberId = 1
  /\ activity = {}
  /\ nextActivityId = 1
  /\ comment = {}
  /\ nextCommentId = 1
  /\ vote = {}
  /\ last = Done("init", 0, 0, 0, 0)
  /\ inflight = [i \in Slots |-> Idle]

Bearers == tokens \cup {NoToken}
BodyAdminValues == {"none", "false", "true"}
UserRoom == nextUserId <= NumUsers

NextAdmin ==
  \/ \E valid \in BOOLEAN, taken \in BOOLEAN, bodyAdmin \in BodyAdminValues :
       /\ taken => users # {}
       /\ (valid /\ ~ taken) => UserRoom
       /\ PostRegister(valid, taken, bodyAdmin)
  \/ \E tok \in Bearers, valid \in BOOLEAN, taken \in BOOLEAN,
          bodyAdmin \in BodyAdminValues :
       /\ taken => users # {}
       /\ (~ NotAnAdmin(tok) /\ valid /\ ~ taken) => UserRoom
       /\ PostUsers(tok, valid, taken, bodyAdmin)
  \/ \E name \in 1..NumUsers, passwordOk \in BOOLEAN : PostToken(name, passwordOk)
  \/ \E tok \in Bearers, name \in 1..NumUsers, field \in {"none", "bio", "isAdmin"} :
       PatchUser(tok, name, field)
  \/ \E tok \in Bearers, name \in 1..NumUsers : DeleteUserAs(tok, name)
  \/ \E tok \in Bearers, r \in 1..NumUsers :
       FriendRoom(tok.id, r) /\ PostFriend(tok.id, r)

SpecAdmin == InitAdmin /\ [][NextAdmin]_vars

----------------------------------------------------------------------------
(* Properties of the friend engine *)

\* The friend rows of the unordered pair {a, b}.
PairRows(a, b) ==
  {f \in friend : {f.sender_id, f.recipient_id} = {a, b}}

FriendOps == {"sendFriendRequest", "POST /friends/:recipientId"}
AcceptOps == {"acceptFriendRequest", "PATCH /users/:username/friend-request"}

\* C1: in every reachable state the friend table holds at most one row for
\* each unordered pair of users, and no row has its sender equal to its
\* recipient.
C1_OneRowPerPair ==
  /\ \A f \in friend : f.sender_id # f.recipient_id
  /\ \A f, g \in friend :
       {f.sender_id, f.recipient_id} = {g.sender_id, g.recipient_id} => f = g

\* Requests were sent both ways round between different pairs, and one of
\* them was accepted: two rows stand side by side.
C1_Witness ==
  /\ Cardinality(friend) = 2
  /\ \E f \in friend : f.status = "accepted"
  /\ \E f, g \in friend : f.sender_id = g.recipient_id

\* C2: for users A # B, when a friend row exists for the pair in either
\* direction and with either status, sendFriendRequest(A, B) fails with
\* BadRequest and the friend table is unchanged.
C2_DuplicateRejected ==
  [][last'.op = "sendFriendRequest" =>
       \A s, r \in UserIds :
         (s # r /\ PairRows(s, r) # {} /\ SendFriendRequest(s, r))
           => (last'.res = "BadRequest" /\ friend' = friend)]_vars

\* A send was rejected as a duplicate while the table's only row is already
\* accepted.
C2_Witness ==
  /\ last.op = "sendFriendRequest"
  /\ last.res = "BadRequest"
  /\ last.msg = "Friend request already sent or you are already friends."
  /\ Cardinality(friend) = 1
  /\ \A f \in friend : f.status = "accepted"

C4_AcceptFailures ==
  [][last'.op = "acceptFriendRequest" =>
       \A s, r \in UserIds :
         AcceptFriendRequest(s, r) =>
           /\ PairRows(s, r) = {}
                => (last'.res = "NotFound" /\ friend' = friend)
           /\ (\E f \in PairRows(s, r) : f.status = "accepted")
                => (last'.res = "BadRequest" /\ friend' = friend)]_vars

\* C5: areFriends is symmetric; it is false for a pair without a row, false
\* while the pair's row is pending, true once the recipient has accepted and
\* false once the row is removed.
C5_AreFriends ==
  /\ [](\A a, b \in UserIds :
          /\ areFriends(a, b) = areFriends(b, a)
          /\ PairRows(a, b) = {} => ~areFriends(a, b)
          /\ (\E f \in PairRows(a, b) : f.status = "pending") => ~areFriends(a, b))
  /\ [][(last'.op \in {"acceptFriendRequest", "Friend.remove"} /\ last'.res = "ok") =>
          \A s, r \in UserIds :
            /\ AcceptFriendRequest(s, r) => (areFriends(s, r)' /\ areFriends(r, s)')
            /\ FriendRemove(s, r) => (~areFriends(s, r)' /\ ~areFriends(r, s)')]_vars

\* A request was accepted: the pair are friends, and a second, pending row
\* makes no friends.
C5_Witness ==
  /\ last.op = "acceptFriendRequest"
  /\ last.res = "ok"
  /\ areFriends(last.a, last.b)
  /\ \E f \in friend : f.status = "pending" /\ ~areFriends(f.sender_id, f.recipient_id)

\* C6: Friend.remove fails with NotFound and changes nothing when no row
\* matches; otherwise it deletes exactly the pair's row, pending or accepted,
\* and leaves every other friend row unchanged.
C6_Remove ==
  [][last'.op = "Friend.remove" =>
       \A s, r \in UserIds :
         FriendRemove(s, r) =>
           IF PairRows(s, r) = {}
           THEN last'.res = "NotFound" /\ friend' = friend
           ELSE /\ last'.res = "ok"
                /\ \E f \in PairRows(s, r) : friend' = friend \ {f}]_vars

\* A row was removed and another row, accepted, is still there.
C6_Witness ==
  /\ last.op = "Friend.remove"
  /\ last.res = "ok"
  /\ \E f \in friend : f.status = "accepted"

\* The friend rows a list shows.
ListRows(list) == {p[1] : p \in list}

\* C7: for every user the three relationship lists (accepted friends,
\* incoming pending requests, outgoing pending requests) are pairwise
\* disjoint, and every friend row that involves the user is in exactly one.
C7_ListsPartition ==
  \A u \in UserIds :
    LET acc == ListRows(AcceptedFriends(u))
        inc == ListRows(IncomingRequests(u))
        out == ListRows(SentRequests(u))
    IN /\ acc \cap inc = {}
       /\ acc \cap out = {}
       /\ inc \cap out = {}
       /\ \A f \in friend :
            (f.sender_id = u \/ f.recipient_id = u) => f \in acc \cup inc \cup out

\* A user has an accepted friend and an incoming request at once.
C7_Witness ==
  \E u \in UserIds :
    /\ AcceptedFriends(u) # {}
    /\ IncomingRequests(u) # {}

\* C8: POST /friends/:recipientId with a recipient id that has no user row
\* is answered 404 NotFound and creates no friend row.
C8_MissingRecipient ==
  [][last'.op = "POST /friends/:recipientId" =>
       \A caller, r \in UserIds :
         (caller \in users /\ caller # r /\ r \notin users /\ PostFriend(caller, r))
           => /\ last'.res = "NotFound"
              /\ HttpStatus(last'.res) = 404
              /\ friend' = friend]_vars

----------------------------------------------------------------------------
(* Properties of the trip engine *)

\* C9: right after Trip.create succeeds for creator C, trip_member holds
\* exactly one row for the new trip: (C, the new trip, "owner").
C9_CreatorIsOwner ==
  (last.op \in {"POST /trips", "Trip.create"} /\ last.res = "ok") =>
    /\ \E t \in trip : t.id = last.ret /\ t.creator_id = last.a
    /\ Cardinality({m \in trip_member : m.trip_id = last.ret}) = 1
    /\ \A m \in trip_member :
         m.trip_id = last.ret => (m.user_id = last.a /\ m.role = "owner")

\* A trip was just created and its row is in the table.
C9_Witness ==
  /\ last.op = "POST /trips"
  /\ last.res = "ok"
  /\ \E t \in trip : t.id = last.ret

\* C10: in every reachable state every existing trip has at least one
\* membership row.
C10_TripHasMember ==
  \A t \in trip : \E m \in trip_member : m.trip_id = t.id

\* C11: Trip.create is all-or-nothing: when it fails, whether on the trip
\* row or on the owner's membership row after it, no trip row is left.
C11_CreateAllOrNothing ==
  [][(last'.op \in {"Trip.create", "POST /trips"} /\ last'.res # "ok")
       => trip' = trip]_vars

\* C12: in every reachable state there is at most one trip_member row per
\* (user, trip) pair; addMember for a pair that already has a row fails with
\* BadRequest and leaves the table unchanged, and addMember with a role other
\* than owner or member fails with BadRequest without inserting.
C12_OneMembershipPerPair ==
  /\ [](\A m, n \in trip_member :
          (m.user_id = n.user_id /\ m.trip_id = n.trip_id) => m = n)
  /\ [][last'.op = "TripMember.addMember" =>
          \A u \in UserIds, t \in TripIds, role \in {"owner", "member", "admin"} :
            (/\ \/ \E m \in trip_member : m.user_id = u /\ m.trip_id = t
                \/ role = "admin"
             /\ AddMember(u, t, role))
              => (last'.res = "BadRequest" /\ trip_member' = trip_member)]_vars

\* addMember was refused for a user who is in the trip already.
C12_Witness ==
  /\ last.op = "TripMember.addMember"
  /\ last.res = "BadRequest"
  /\ last.msg = "User is already a member of this trip."
  /\ trip_member # {}

\* C13: GET /trips/:tripId by a logged-in user on an existing trip returns
\* the trip exactly when the trip is public or the requester has a
\* membership row in it (owner or member); otherwise, a non-member asking
\* for a private trip, it answers Forbidden.
C13_TripVisibility ==
  [][last'.op = "GET /trips/:tripId" =>
       \A caller \in UserIds : \A t \in trip :
         GetTrip(caller, t.id) =>
           /\ last'.res = "ok" <=>
                \/ t.is_private = 0
                \/ \E m \in trip_member :
                     /\ m.user_id = caller /\ m.trip_id = t.id
                     /\ m.role \in {"owner", "member"}
           /\ last'.res # "ok" => last'.res = "Forbidden"]_vars

\* A private trip was refused to a logged-in user while it has members.
C13_Witness ==
  /\ last.op = "GET /trips/:tripId"
  /\ last.res = "Forbidden"
  /\ \E t \in trip : t.is_private = 1 /\ \E m \in trip_member : m.trip_id = t.id

\* Some request of a member-gated write route made by `caller` through the
\* path of trip `tripId`.
PlanWrite(caller, tripId) ==
  \/ \E text \in {"", "hi"} : PostComment(caller, tripId, text)
  \/ PostActivity(caller, tripId, "a")
  \/ \E a \in PlanActivityIds : PatchActivity(caller, tripId, a, "b")
  \/ \E a \in PlanActivityIds : DeleteActivity(caller, tripId, a)
  \/ \E a \in PlanActivityIds, v \in {1, 0, -1, 2} : PostVote(caller, tripId, a, v)

\* C14: creating, updating or deleting an activity, posting a comment and
\* casting, changing or removing a vote through the path of trip T change the
\* activity, comment or vote table only when the requester has a membership
\* row in T with role owner or member, whether T is public or private; a
\* logged-in requester without one gets Forbidden and the three tables are
\* unchanged.  Stated per state: no such request of a requester without the
\* row can end otherwise than Forbidden with the three tables as they were.
C14_WritesNeedMembership ==
  \A caller \in UserIds : \A t \in trip :
    (~ \E m \in trip_member :
         /\ m.user_id = caller /\ m.trip_id = t.id
         /\ m.role \in {"owner", "member"})
      => ~ ENABLED (/\ PlanWrite(caller, t.id)
                    /\ ~ (/\ last'.res = "Forbidden"
                          /\ activity' = activity
                          /\ comment' = comment
                          /\ vote' = vote))

\* A vote request was refused for want of a membership while an activity of
\* a trip that has lost a member carries a vote.
C14_Witness ==
  /\ last.op = "POST /trips/:tripId/activities/:activityId/vote"
  /\ last.res = "Forbidden"
  /\ last.msg = "You must be a member of this trip to perform this action"
  /\ \E v \in vote : \E a \in activity :
       /\ a.id = v.activity_id
       /\ ~ \E m \in trip_member : m.user_id = v.user_id /\ m.trip_id = a.trip_id

\* C15: DELETE /trips/:tripId removes the trip only when the requester is
\* the trip's creator; any other logged-in user, a member of the trip
\* included, gets Forbidden and the trip and its dependent rows remain.
C15_OnlyCreatorDeletesTrip ==
  [][last'.op = "DELETE /trips/:tripId" =>
       \A caller \in UserIds : \A t \in trip :
         DeleteTrip(caller, t.id) =>
           IF t.creator_id = caller
           THEN last'.res = "ok" /\ trip' = trip \ {t}
           ELSE /\ last'.res = "Forbidden"
                /\ UNCHANGED <<trip, trip_member, activity, comment, vote>>]_vars

\* The delete was refused as not the owner's while the trip has a
\* member-role row.
C15_Witness ==
  /\ last.op = "DELETE /trips/:tripId"
  /\ last.res = "Forbidden"
  /\ \E m \in trip_member : m.role = "member"

\* C16: POST /trips/:tripId/members inserts a membership only when the
\* requester is the trip's owner and the addee is an accepted friend of the
\* requester at that moment; a non-owner gets Forbidden, a pending or absent
\* relationship gets Forbidden, and the membership table is unchanged.
C16_AddMemberNeedsOwnerAndFriend ==
  [][last'.op = "POST /trips/:tripId/members" =>
       \/ last'.res = "Forbidden" /\ trip_member' = trip_member
       \/ \A caller, f \in UserIds : \A t \in trip :
            PostMember(caller, t.id, f) =>
              LET owner == t.creator_id = caller
                  accepted == \E r \in PairRows(caller, f) : r.status = "accepted"
              IN /\ trip_member' # trip_member => (owner /\ accepted)
                 /\ (~owner \/ ~accepted)
                      => (last'.res = "Forbidden" /\ trip_member' = trip_member)]_vars

\* The owner of a trip was refused a member for want of an accepted
\* friendship.
C16_Witness ==
  /\ last.op = "POST /trips/:tripId/members"
  /\ last.res = "Forbidden"
  /\ last.msg = "You do not have friends with friendId"

----------------------------------------------------------------------------
(* Properties of the planning engine: comments *)

\* C17: DELETE /trips/:tripId/comments/:commentId deletes the comment only
\* when the requester is the comment's author: no request of any other user,
\* the owner of the trip included, through the path of any trip, can end
\* otherwise than Forbidden with the comment still there; the author, while a
\* member of the comment's trip, can delete it.
C17_OnlyAuthorDeletesComment ==
  \A c \in comment :
    /\ \A caller \in UserIds \ {c.user_id} : \A tripId \in 1..nextTripId :
         ~ ENABLED (/\ DeleteComment(caller, tripId, c.id)
                    /\ ~ (last'.res = "Forbidden" /\ comment' = comment))
    /\ isMember(c.user_id, c.trip_id) # {}
         => ENABLED (/\ DeleteComment(c.user_id, c.trip_id, c.id)
                     /\ last'.res = "ok"
                     /\ comment' = comment \ {c})

\* The owner of a trip was refused the deletion of a member's comment: the
\* only comment is a member's, and the only other member of its trip is the
\* trip's creator.
C17_Witness ==
  /\ last.op = "DELETE /trips/:tripId/comments/:commentId"
  /\ last.res = "Forbidden"
  /\ last.msg = "You are not authorized to delete this comment."
  /\ \E c \in comment : \E t \in trip :
       /\ comment = {c}
       /\ t.id = c.trip_id
       /\ t.creator_id # c.user_id
       /\ {m.user_id : m \in isMember(t.creator_id, t.id)} = {t.creator_id}
       /\ {m.user_id : m \in {n \in trip_member : n.trip_id = t.id}}
            = {c.user_id, t.creator_id}

----------------------------------------------------------------------------
(* Properties of the vote engine *)

\* The vote rows of a (user, activity) pair.
VoteRows(u, a) == {w \in vote : w.user_id = u /\ w.activity_id = a}

\* C18: in every state reached by castVote and Vote.remove calls there is at
\* most one vote row per (user, activity) pair and every stored value is +1
\* or -1; 0 is never stored.
C18_VoteRows ==
  /\ \A v, w \in vote :
       (v.user_id = w.user_id /\ v.activity_id = w.activity_id) => v = w
  /\ \A v \in vote : v.vote_value \in {1, -1}

\* Vote.remove has just deleted a row while an upvote and a downvote of
\* other users stay on the activity.
C18_Witness ==
  /\ last.op = "Vote.remove"
  /\ last.res = "ok"
  /\ \E v, w \in vote :
       v.activity_id = w.activity_id /\ v.vote_value = 1 /\ w.vote_value = -1

\* C19: castVote(u, a, v) with v +1 or -1, for a user and an activity that
\* exist, succeeds whether or not a row exists for (u, a); afterwards the
\* pair has exactly one row, holding v (replaced if there was one, inserted
\* otherwise), and the rows of every other pair are unchanged.
C19_CastVoteUpserts ==
  [][last'.op = "Vote.castVote" =>
       \A u \in users : \A a \in activity : \A v \in {1, -1} :
         castVote(u, a.id, v) =>
           /\ last'.res = "ok"
           /\ last'.ret = v
           /\ vote' = (vote \ VoteRows(u, a.id)) \cup {VoteRow(u, a.id, v)}]_vars

\* castVote has just stored a downvote where the same activity carries an
\* upvote of another user.
C19_Witness ==
  /\ last.op = "Vote.castVote"
  /\ last.res = "ok"
  /\ last.ret = -1
  /\ \E v, w \in vote :
       v.activity_id = w.activity_id /\ v.vote_value = 1 /\ w.vote_value = -1

\* C20: castVote(u, a, 0) fails with BadRequest and changes nothing when no
\* row exists for (u, a); when one exists, the call deletes it, returns a
\* result with value 0, and the tally of the activity no longer counts it.
C20_CastVoteZero ==
  [][last'.op = "Vote.castVote" =>
       \A u \in 1..(NumUsers + 1) : \A a \in PlanActivityIds :
         castVote(u, a, 0) =>
           IF VoteRows(u, a) = {}
           THEN last'.res = "BadRequest" /\ vote' = vote
           ELSE /\ last'.res = "ok"
                /\ last'.ret = 0
                /\ vote' = vote \ VoteRows(u, a)
                /\ \A w \in VoteRows(u, a) :
                     /\ VoteTally(vote', a).upvotes
                          = VoteTally(vote, a).upvotes - (IF w.vote_value = 1 THEN 1 ELSE 0)
                     /\ VoteTally(vote', a).downvotes
                          = VoteTally(vote, a).downvotes - (IF w.vote_value = -1 THEN 1 ELSE 0)]_vars

\* castVote has just removed a vote and answered value 0 while other votes
\* stay on the activity.
C20_Witness ==
  /\ last.op = "Vote.castVote"
  /\ last.res = "ok"
  /\ last.ret = 0
  /\ vote # {}

\* C21: the tally of an activity returns upvotes equal to the number of its
\* vote rows with value +1 and downvotes equal to the number with value -1;
\* for an activity without vote rows, or an id without an activity, it
\* returns 0 and 0, never an error.
C21_TallyCounts ==
  last.op = "Vote.getVotesForActivity" =>
    /\ last.res = "ok"
    /\ last.b = Cardinality({v \in vote : v.activity_id = last.a /\ v.vote_value = 1})
    /\ last.c = Cardinality({v \in vote : v.activity_id = last.a /\ v.vote_value = -1})
    /\ (~ \E v \in vote : v.activity_id = last.a) => (last.b = 0 /\ last.c = 0)

\* The tally of an activity with votes +1, +1 and -1 was just read.
C21_Witness ==
  /\ last.op = "Vote.getVotesForActivity"
  /\ last.b = 2
  /\ last.c = 1

----------------------------------------------------------------------------
(* Properties of the account engine *)

\* C22: after User.remove(u) succeeds no row that references u remains: no
\* membership of u, no friend row with u as sender or recipient, no comment,
\* activity or vote of u, no trip created by u, and none of the rows that
\* depended on those trips and activities.
C22_UserRemoveCascades ==
  [][(last'.op = "User.remove" /\ last'.res = "ok") =>
       LET u == last'.b
           gone == {t.id : t \in {x \in trip : x.creator_id = u}}
           away == {a.id : a \in {x \in activity :
                                    x.created_by = u \/ x.trip_id \in gone}}
       IN /\ u \in users /\ u \notin users'
          /\ \A f \in friend' : f.sender_id # u /\ f.recipient_id # u
          /\ \A t \in trip' : t.creator_id # u
          /\ \A m \in trip_member' : m.user_id # u /\ m.trip_id \notin gone
          /\ \A c \in comment' : c.user_id # u /\ c.trip_id \notin gone
          /\ \A a \in activity' : a.created_by # u /\ a.trip_id \notin gone
          /\ \A v \in vote' : v.user_id # u /\ v.activity_id \notin away]_vars

\* User 1 was just removed while user 2, whose trip held user 1's
\* membership, comment and activity, is still there: the trip stays, the
\* activity and its votes are gone.
C22_Witness ==
  /\ last.op = "User.remove"
  /\ last.res = "ok"
  /\ last.b = 1
  /\ 2 \in users
  /\ \E t \in trip : t.creator_id = 2
  /\ activity = {}
  /\ vote = {}

----------------------------------------------------------------------------
(* Properties of overlapping calls *)

\* C23: when two sendFriendRequest calls for the same unordered pair
\* overlap (A to B with A to B, or A to B with B to A), under every
\* interleaving of their duplicate checks and inserts the friend table ends
\* with at most one row for the pair.
C23_RaceOneRowPerPair ==
  \A a \in UserIds, b \in UserIds : Cardinality(PairRows(a, b)) <= 1

\* C28: when Friend.remove deletes the relationship between
\* acceptFriendRequest's pending check and its UPDATE, acceptFriendRequest
\* does not report success: the call throws, or the row it returns is in the
\* friend table with status accepted.
C28_AcceptAfterRemove ==
  [][\A i \in Slots :
       (EndAcceptFriendRequest(i) /\ last'.res = "ok")
         => \E f \in friend' : f.id = last'.ret /\ f.status = "accepted"]_vars

\* C24: when two calls race to insert the same unique key (two addMember
\* calls for one (user, trip) pair, two castVote calls with a nonzero value
\* for one (user, activity) pair without a row), one insert takes effect and
\* the call that comes second fails with BadRequest and changes nothing; it
\* never fails with a raw storage error.
C24_InsertRaceLoser ==
  [][\A i \in Slots :
       /\ (/\ EndAddMember(i)
           /\ \E m \in trip_member :
                m.user_id = inflight[i].a /\ m.trip_id = inflight[i].b)
            => (last'.res = "BadRequest" /\ trip_member' = trip_member)
       /\ (/\ EndCastVote(i)
           /\ inflight[i].op = "Vote.castVote INSERT"
           /\ \E v \in vote :
                v.user_id = inflight[i].a /\ v.activity_id = inflight[i].b)
            => (last'.res = "BadRequest" /\ vote' = vote)]_vars

----------------------------------------------------------------------------
(* Properties that take two trips *)

\* C25: DELETE /trips/:tripId/members/:memberId, authorized by ownership of
\* trip :tripId, deletes a membership row only if the row belongs to trip
\* :tripId; a membership of another trip is never removed by it.
C25_RemoveOnlyOwnTripsMember ==
  [][(last'.op = "DELETE /trips/:tripId/members/:memberId" /\ last'.res = "ok")
       => \A m \in trip_member \ trip_member' : m.trip_id = last'.b]_vars

\* C26: a request to update, delete or vote on activity X through the path
\* of trip T changes state only when X belongs to T: when X belongs to
\* another trip, no such request of a logged-in user with a well-formed body
\* can end otherwise than Forbidden with X and the votes as they were, the
\* requester's membership in T notwithstanding.
C26_ActivityOfAnotherTrip ==
  \A x \in activity : \A t \in trip : \A caller \in UserIds :
    x.trip_id # t.id =>
      ~ ENABLED (/\ \/ PatchActivity(caller, t.id, x.id, "b")
                    \/ DeleteActivity(caller, t.id, x.id)
                    \/ \E v \in {1, 0, -1} : PostVote(caller, t.id, x.id, v)
                 /\ ~ (/\ last'.res = "Forbidden"
                       /\ activity' = activity
                       /\ vote' = vote))

\* A member of one trip was refused a change to an activity of the other
\* trip, which carries a vote.
C26_Witness ==
  /\ last.res = "Forbidden"
  /\ last.msg = "Activity does not belong to this trip."
  /\ \E x \in activity : \E v \in vote : v.activity_id = x.id

\* C27: through PATCH /friends/:friendId and DELETE /friends/:friendId a
\* relationship changes or disappears only when the requester is its sender
\* or its recipient; any other logged-in user is answered Unauthorized and
\* the friend table is unchanged.
C27_OnlyParticipantsModify ==
  \A f \in friend : \A caller \in UserIds :
    /\ (caller # f.sender_id /\ caller # f.recipient_id) =>
         ~ ENABLED (/\ PatchFriend(caller, f.id) \/ DeleteFriend(caller, f.id)
                    /\ ~ (last'.res = "Unauthorized" /\ friend' = friend))
    /\ ~ ENABLED (/\ PatchFriend(caller, f.id) \/ DeleteFriend(caller, f.id)
                  /\ \E g \in friend \ {f} : g \notin friend')

\* A user outside a relationship has just been refused while the
\* relationship, still pending, stays in the table.
C27_Witness ==
  /\ last.op = "DELETE /friends/:friendId"
  /\ last.res = "Unauthorized"
  /\ \E f \in friend : f.status = "pending"

\* C29: a user row gets the admin flag only in a POST /users request made by
\* a caller who is an admin user at that moment; no other request creates an
\* admin or sets the flag of an existing user.
C29_AdminOnlyFromAdmin ==
  [][\A u \in is_admin' \ is_admin :
       /\ last'.op = "POST /users"
       /\ last'.a \in is_admin]_vars

\* C30: every trip-scoped route, asked by a logged-in user about a trip id
\* that has no trip row, answers NotFound, whoever asks.
C30_MissingTripIsNotFound ==
  [][last'.op \in {"PATCH /trips/:tripId", "DELETE /trips/:tripId",
                   "POST /trips/:tripId/members",
                   "DELETE /trips/:tripId/members/:memberId",
                   "POST /trips/:tripId/comments",
                   "DELETE /trips/:tripId/comments/:commentId",
                   "POST /trips/:tripId/activities",
                   "PATCH /trips/:tripId/activities/:activityId",
                   "DELETE /trips/:tripId/activities/:activityId",
                   "POST /trips/:tripId/activities/:activityId/vote"} =>
       \A caller \in UserIds : \A t \in 1..nextTripId :
         (/\ TripMissing(t)
          /\ \/ \E priv \in {0, 1} : PatchTrip(caller, t, priv)
             \/ DeleteTrip(caller, t)
             \/ \E friendId \in UserIds : PostMember(caller, t, friendId)
             \/ \E m \in 1..nextMemberId : DeleteMember(caller, t, m)
             \/ \E text \in {"", "hi"} : PostComment(caller, t, text)
             \/ \E c \in PlanCommentIds : DeleteComment(caller, t, c)
             \/ PostActivity(caller, t, "a")
             \/ \E a \in PlanActivityIds :
                  \/ PatchActivity(caller, t, a, "b")
                  \/ DeleteActivity(caller, t, a)
                  \/ \E v \in {1, 0, -1, 2} : PostVote(caller, t, a, v))
         => last'.res = "NotFound"]_vars

====
